---- MODULE Spec2Model ----
(***************************************************************************)
(* A model of vm.c, a virtual machine for the LC-3 architecture: the       *)
(* register file, the memory array, the fetch/decode/dispatch loop of      *)
(* main, and the handlers update_flags, sign_extend and add.  vm.c is a    *)
(* skeleton: mem_read, the image loader, the trap routines and every       *)
(* handler but add are placeholders in it, and are modelled here from the  *)
(* design document (spec.md §4).                                           *)
(***************************************************************************)
EXTENDS Integers, Sequences, FiniteSets, TLC

VARIABLES
    memory,     \* uint16_t memory[UINT16_MAX]: the cells that are not zero
    reg,        \* uint16_t reg[R_COUNT]
    ext,        \* the 16-bit object that follows memory[] when it is padding
    layout,     \* what the build placed right after memory[]
    oob,        \* has memory[] been indexed outside 0..UINT16_MAX-1
    running,    \* int running, the loop's flag
    diag,       \* the diagnostic the loop ended with
    at,         \* position in main's loop, or in a function called alone
    instr,      \* main's local instr
    op,         \* main's local op
    fetchAddr,  \* the address the last instruction word was fetched from
    steps,      \* instructions fetched so far
    image,      \* the image file the loader was given
    callArg,    \* arguments of a function called alone
    callRet,    \* its return value
    ran,        \* history: the handlers the current pass of the switch called
    callSite,   \* history: <<a>> while reg[R_R7] holds what the JSR fetched
                \* from a left in it, <<>> otherwise
    lastFlag    \* history: <<dr, live>> once update_flags has run: dr is the
                \* register it last ran on, live is whether dr still holds
                \* the value it had then

vars == <<memory, reg, ext, layout, oob, running, diag, at, instr, op,
          fetchAddr, steps, image, callArg, callRet, ran, callSite, lastFlag>>

(***************************************************************************)
(* Bounds of the model.                                                    *)
(***************************************************************************)
MaxSteps == 4
MaxImageLen == 2

(***************************************************************************)
(* Program constants.                                                      *)
(***************************************************************************)
WORD == 65536
UINT16_MAX == 65535
MEMORY_SIZE == UINT16_MAX

R_R0 == 0
R_R7 == 7
R_PC == 8
R_COND == 9
R_COUNT == 10

OP_BR == 0
OP_ADD == 1
OP_LD == 2
OP_ST == 3
OP_JSR == 4
OP_AND == 5
OP_LDR == 6
OP_STR == 7
OP_RTI == 8
OP_NOT == 9
OP_LDI == 10
OP_STI == 11
OP_JMP == 12
OP_RES == 13
OP_LEA == 14
OP_TRAP == 15

FL_POS == 1
FL_ZRO == 2
FL_NEG == 4

PC_START == 12288

\* The memory-mapped keyboard registers and the trap vectors: not in vm.c.
MR_KBSR == 65024
MR_KBDR == 65026
TRAP_GETC == 32
TRAP_OUT == 33
TRAP_PUTS == 34
TRAP_IN == 35
TRAP_PUTSP == 36
TRAP_HALT == 37

(***************************************************************************)
(* C's integer operators on the values vm.c applies them to.               *)
(***************************************************************************)
\* conversion to uint16_t
U16(x) == x % WORD

\* x >> n
Shr(x, n) == x \div (2 ^ n)

\* x << n, in int
Shl(x, n) == x * (2 ^ n)

RECURSIVE BitAnd(_, _)
\* a & b
BitAnd(a, b) ==
    IF a = 0 \/ b = 0 THEN 0
    ELSE (a % 2) * (b % 2) + 2 * BitAnd(a \div 2, b \div 2)

RECURSIVE BitOr(_, _)
\* a | b
BitOr(a, b) ==
    IF a = 0 THEN b
    ELSE IF b = 0 THEN a
    ELSE (IF a % 2 = 1 \/ b % 2 = 1 THEN 1 ELSE 0) + 2 * BitOr(a \div 2, b \div 2)

\* ~x of a uint16_t, converted back to uint16_t
BitNot(x) == UINT16_MAX - x

(***************************************************************************)
(* The machine state the handlers work on, as one record.                  *)
(***************************************************************************)
st == [mem |-> memory, reg |-> reg, ext |-> ext, layout |-> layout,
       oob |-> oob, running |-> running, diag |-> diag]

\* What a build can place right after memory[]: padding, or reg[] itself.
Layouts == {"pad", "reg"}

NoDiag == [kind |-> "none"]

\* Globals are zero-initialized; main sets running = 1.
ZeroState(lay) ==
    [mem |-> [x \in {} |-> 0], reg |-> [i \in 0..(R_COUNT - 1) |-> 0], ext |-> 0,
     layout |-> lay, oob |-> FALSE, running |-> 1, diag |-> NoDiag]

(***************************************************************************)
(* update_flags, sign_extend, add: translated from vm.c.                   *)
(***************************************************************************)
\* update_flags that sets its flag without clearing the others
update_flags_or(s, r) ==
    IF s.reg[r] = 0
    THEN [s EXCEPT !.reg[R_COND] = BitOr(@, FL_ZRO)]
    ELSE IF Shr(s.reg[r], 15) # 0
         THEN [s EXCEPT !.reg[R_COND] = BitOr(@, FL_NEG)]
         ELSE [s EXCEPT !.reg[R_COND] = BitOr(@, FL_POS)]

\* update_flags without its case for zero
update_flags_sign(s, r) ==
    IF Shr(s.reg[r], 15) # 0
    THEN [s EXCEPT !.reg[R_COND] = FL_NEG]
    ELSE [s EXCEPT !.reg[R_COND] = FL_POS]

update_flags(s, r) ==
    IF s.reg[r] = 0
    THEN [s EXCEPT !.reg[R_COND] = FL_ZRO]
    ELSE IF Shr(s.reg[r], 15) # 0
         THEN [s EXCEPT !.reg[R_COND] = FL_NEG]
         ELSE [s EXCEPT !.reg[R_COND] = FL_POS]

\* sign_extend whose result is not converted back to uint16_t
sign_extend_int(x, bit_count) ==
    IF BitAnd(Shr(x, bit_count - 1), 1) # 0
    THEN BitOr(x, Shl(UINT16_MAX, bit_count))
    ELSE x

\* sign_extend that leaves the field as it is
sign_extend_none(x, bit_count) == x

sign_extend(x, bit_count) ==
    IF BitAnd(Shr(x, bit_count - 1), 1) # 0
    THEN U16(BitOr(x, Shl(UINT16_MAX, bit_count)))
    ELSE x

\* the destination read from bits [8:6]
AddDrBits8to6(i) == BitAnd(Shr(i, 6), 7)

AddDr(i) == BitAnd(Shr(i, 9), 7)

AddSr1(i) == BitAnd(Shr(i, 6), 7)

\* the mode read from bit 4
AddModeBit4(i) == BitAnd(Shr(i, 4), 1)

AddMode(i) == BitAnd(Shr(i, 5), 1)

add(s, i) ==
    LET dr == AddDr(i)
        sr1 == AddSr1(i)
        mode == AddMode(i)
        imm5 == sign_extend(BitAnd(i, 31), 5)
        sr2 == BitAnd(i, 7)
        s1 == IF mode # 0
              THEN [s EXCEPT !.reg[dr] = U16(s.reg[sr1] + imm5)]
              ELSE [s EXCEPT !.reg[dr] = U16(s.reg[sr1] + s.reg[sr2])]
    IN  update_flags(s1, dr)

(***************************************************************************)
(* Memory.  memory[] has UINT16_MAX cells, 0..UINT16_MAX-1; the model      *)
(* keeps the cells that are not zero.  Index UINT16_MAX is one past the    *)
(* end: the access lands on whatever the build placed there.               *)
(***************************************************************************)
Put(mem, a, v) ==
    IF v = 0
    THEN [x \in (DOMAIN mem) \ {a} |-> mem[x]]
    ELSE [x \in (DOMAIN mem) \cup {a} |-> IF x = a THEN v ELSE mem[x]]

Get(mem, a) == IF a \in DOMAIN mem THEN mem[a] ELSE 0

InRange(a) == a < MEMORY_SIZE

\* memory[a] as an rvalue
Cell(s, a) ==
    IF InRange(a) THEN Get(s.mem, a)
    ELSE IF s.layout = "pad" THEN s.ext ELSE s.reg[R_R0]

\* memory[a] = v
Store(s, a, v) ==
    IF InRange(a) THEN [s EXCEPT !.mem = Put(s.mem, a, v)]
    ELSE IF s.layout = "pad"
         THEN [s EXCEPT !.ext = v, !.oob = TRUE]
         ELSE [s EXCEPT !.reg[R_R0] = v, !.oob = TRUE]

\* The keys the console can hold when it is polled: 0 is no key.
Keys == {0, 97}

\* Poll the console: refresh the keyboard status and data registers.
Poll(s, key) ==
    IF key # 0
    THEN Store(Store(s, MR_KBSR, 32768), MR_KBDR, key)
    ELSE Store(s, MR_KBSR, 0)

\* mem_read(a): the state after the read, and the value read
ReadState(s, a, key) ==
    LET s1 == IF a = MR_KBSR THEN Poll(s, key) ELSE s
    IN  IF InRange(a) THEN s1 ELSE [s1 EXCEPT !.oob = TRUE]

mem_read(s, a, key) == Cell(ReadState(s, a, key), a)

mem_write(s, a, v) == Store(s, a, v)

(***************************************************************************)
(* The handlers vm.c leaves as placeholders, from the design document.     *)
(***************************************************************************)
\* bits [11:9], [8:6] and the PC-relative address of bits [8:0]
Dr(i) == BitAnd(Shr(i, 9), 7)

Base(i) == BitAnd(Shr(i, 6), 7)

PcRel9(s, i) == U16(s.reg[R_PC] + sign_extend(BitAnd(i, 511), 9))

BaseRel6(s, i) == U16(s.reg[Base(i)] + sign_extend(BitAnd(i, 63), 6))

and_(s, i) ==
    LET dr == Dr(i)
        operand2 == IF BitAnd(Shr(i, 5), 1) # 0
                    THEN sign_extend(BitAnd(i, 31), 5)
                    ELSE s.reg[BitAnd(i, 7)]
    IN  update_flags([s EXCEPT !.reg[dr] = BitAnd(s.reg[Base(i)], operand2)], dr)

not_(s, i) ==
    LET dr == Dr(i)
    IN  update_flags([s EXCEPT !.reg[dr] = BitNot(s.reg[Base(i)])], dr)

br(s, i) ==
    IF BitAnd(Dr(i), s.reg[R_COND]) # 0
    THEN [s EXCEPT !.reg[R_PC] = PcRel9(s, i)]
    ELSE s

jmp(s, i) == [s EXCEPT !.reg[R_PC] = s.reg[Base(i)]]

jsr(s, i) ==
    LET s1 == [s EXCEPT !.reg[R_R7] = s.reg[R_PC]]
    IN  IF BitAnd(Shr(i, 11), 1) # 0
        THEN [s1 EXCEPT !.reg[R_PC] =
                  U16(s1.reg[R_PC] + sign_extend(BitAnd(i, 2047), 11))]
        ELSE [s1 EXCEPT !.reg[R_PC] = s1.reg[Base(i)]]

\* reg[dr] = mem_read(a); update_flags(dr)
LoadInto(s, dr, a, key) ==
    update_flags([ReadState(s, a, key) EXCEPT !.reg[dr] = mem_read(s, a, key)], dr)

ld(s, i, key) == LoadInto(s, Dr(i), PcRel9(s, i), key)

LdiDr(i) == BitAnd(Shr(i, 9), 7)

ldi(s, i, key) ==
    LET a == PcRel9(s, i)
    IN  LoadInto(ReadState(s, a, key), LdiDr(i), mem_read(s, a, key), key)

ldr(s, i, key) == LoadInto(s, Dr(i), BaseRel6(s, i), key)

lea(s, i) ==
    LET dr == Dr(i)
    IN  update_flags([s EXCEPT !.reg[dr] = PcRel9(s, i)], dr)

\* ST as a handler that ends in update_flags on the register it stores.
st_flags(s, i) == update_flags(mem_write(s, PcRel9(s, i), s.reg[Dr(i)]), Dr(i))

st_(s, i) == mem_write(s, PcRel9(s, i), s.reg[Dr(i)])

sti(s, i, key) ==
    LET a == PcRel9(s, i)
        s1 == ReadState(s, a, key)
    IN  mem_write(s1, mem_read(s, a, key), s1.reg[Dr(i)])

str_(s, i) == mem_write(s, BaseRel6(s, i), s.reg[Dr(i)])

\* What GETC and IN put in register 0: the character, or EOF when none.
CharRead(key) == IF key # 0 THEN key ELSE UINT16_MAX

trap(s, i, key) ==
    LET vector == BitAnd(i, 255)
        s1 == [s EXCEPT !.reg[R_R7] = s.reg[R_PC]]
    IN  IF vector = TRAP_HALT THEN [s1 EXCEPT !.running = 0]
        ELSE IF vector \in {TRAP_GETC, TRAP_IN}
             THEN [s1 EXCEPT !.reg[R_R0] = CharRead(key)]
             ELSE s1

\* The address the instruction being executed was fetched from.
FetchedFrom(s) == U16(s.reg[R_PC] + UINT16_MAX)

bad_opcode(s, opc) ==
    [s EXCEPT !.running = 0,
              !.diag = [kind |-> "BadOpcode", opcode |-> opc,
                        address |-> FetchedFrom(s)]]

RECURSIVE LoadFrom(_, _, _)
\* The loader: the image's data words, stored from the origin on.
LoadFrom(s, a, words) ==
    IF words = <<>> THEN s
    ELSE LoadFrom(mem_write(s, a, Head(words)), U16(a + 1), Tail(words))

read_image(s, img) == LoadFrom(s, img.origin, img.words)

(***************************************************************************)
(* The images the model loads: every sequence of 1..MaxImageLen words of   *)
(* InstrWords, at each origin of Origins.                                  *)
(***************************************************************************)
InstrWords ==
    {     0,   \* 0x0000  BR (never taken)
       3585,   \* 0x0E01  BRnzp +1
       4159,   \* 0x103F  ADD R0, R0, #-1
       4222,   \* 0x107E  ADD R0, R1, #-2
       8704,   \* 0x2200  LD R1, +0
      12288,   \* 0x3000  ST R0, +0
      16384,   \* 0x4000  JSRR R0
      16832,   \* 0x41C0  JSRR R7
      18432,   \* 0x4800  JSR +0
      20478,   \* 0x4FFE  JSR -2
      20512,   \* 0x5020  AND R0, R0, #0
      25151,   \* 0x623F  LDR R1, R0, #-1
      28735,   \* 0x703F  STR R0, R0, #-1
      29184,   \* 0x7200  STR R1, R0, #0
      32768,   \* 0x8000  RTI
      36927,   \* 0x903F  NOT R0, R0
      41472,   \* 0xA200  LDI R1, +0
      45056,   \* 0xB000  STI R0, +0
      49152,   \* 0xC000  JMP R0
      49600,   \* 0xC1C0  JMP R7
      53248,   \* 0xD000  RES
      57856,   \* 0xE200  LEA R1, +0
      61472,   \* 0xF020  TRAP GETC
      61477,   \* 0xF025  TRAP HALT
      65535 }  \* 0xFFFF  TRAP, a vector with no routine

Origins == {PC_START - 1, PC_START, PC_START + 1}

Images ==
    { [origin |-> o, words |-> w] :
        o \in Origins,
        w \in UNION { [1..n -> InstrWords] : n \in 1..MaxImageLen } }

NoImage == [origin |-> 0, words |-> <<>>]

\* main before its loop: the image is loaded, reg[R_PC] = PC_START, running = 1
Boot(lay, img) == [read_image(ZeroState(lay), img) EXCEPT !.reg[R_PC] = PC_START]

\* The variables take the fields of the record s.
Commit(s) ==
    /\ memory' = s.mem
    /\ reg' = s.reg
    /\ ext' = s.ext
    /\ layout' = s.layout
    /\ oob' = s.oob
    /\ running' = s.running
    /\ diag' = s.diag

\* The variables start as the record s and the loop's locals given.
Start(s, pos, i, from, n, img, arg) ==
    /\ memory = s.mem
    /\ reg = s.reg
    /\ ext = s.ext
    /\ layout = s.layout
    /\ oob = s.oob
    /\ running = s.running
    /\ diag = s.diag
    /\ at = pos
    /\ instr = i
    /\ op = Shr(i, 12)
    /\ fetchAddr = from
    /\ steps = n
    /\ image = img
    /\ callArg = arg
    /\ callRet = 0
    /\ ran = <<>>
    /\ callSite = <<>>
    /\ lastFlag = <<>>

Init ==
    \E lay \in Layouts, img \in Images :
        Start(Boot(lay, img), "fetch", 0, 0, 0, img, <<>>)

(***************************************************************************)
(* main's loop.                                                            *)
(***************************************************************************)
\* A loop that never tests running.
LoopGuardAlways == TRUE

\* while (running)
LoopGuard == running # 0

\* The fetch without its post-increment: mem_read(reg[R_PC]).
IncPCNone(pc) == pc

\* reg[R_PC]++ in a register wider than 16 bits.
IncPCWide(pc) == pc + 1

\* reg[R_PC]++ on a uint16_t
IncPC(pc) == U16(pc + 1)

\* op = instr >> 11
DecodeShift11(w) == Shr(w, 11)

\* uint16_t op = instr >> 12
Decode(w) == Shr(w, 12)

\* instr = mem_read(reg[R_PC]++); op = instr >> 12
Fetch ==
    /\ at = "fetch"
    /\ LoopGuard
    /\ steps < MaxSteps
    /\ \E key \in Keys :
          LET pc == reg[R_PC]
              s1 == [st EXCEPT !.reg[R_PC] = IncPC(pc)]
              s2 == ReadState(s1, pc, key)
              w  == mem_read(s1, pc, key)
          IN  /\ Commit(s2)
              /\ instr' = w
              /\ op' = Decode(w)
              /\ fetchAddr' = pc
    /\ at' = "dispatch"
    /\ steps' = steps + 1
    /\ ran' = <<>>
    /\ UNCHANGED <<image, callArg, callRet, callSite, lastFlag>>

\* The handlers that end in update_flags.
FlagSetters == {"add", "and", "not", "ld", "ldi", "ldr", "lea"}

\* callSite after the handlers hs have left the registers as in s.
NextCallSite(s, hs) ==
    IF hs = <<"jsr">> THEN <<fetchAddr>>
    ELSE IF s.reg[R_R7] # reg[R_R7] THEN <<>>
    ELSE callSite

\* lastFlag after the handlers hs have left the registers as in s.
NextLastFlag(s, hs) ==
    IF hs # <<>> /\ hs[1] \in FlagSetters THEN <<Dr(instr), TRUE>>
    ELSE IF lastFlag # <<>> /\ s.reg[lastFlag[1]] # reg[lastFlag[1]]
         THEN <<lastFlag[1], FALSE>>
    ELSE lastFlag

\* One case of the switch: the handlers hs it calls leave the state s, then
\* back to the loop's test.
Exec(s, hs) ==
    /\ at = "dispatch"
    /\ Commit(s)
    /\ at' = "fetch"
    /\ ran' = ran \o hs
    /\ callSite' = NextCallSite(s, hs)
    /\ lastFlag' = NextLastFlag(s, hs)
    /\ UNCHANGED <<instr, op, fetchAddr, steps, image, callArg, callRet>>

OpAdd ==
    /\ op = OP_ADD
    /\ Exec(add(st, instr), <<"add">>)

OpAnd ==
    /\ op = OP_AND
    /\ Exec(and_(st, instr), <<"and">>)

OpNot ==
    /\ op = OP_NOT
    /\ Exec(not_(st, instr), <<"not">>)

OpBr ==
    /\ op = OP_BR
    /\ Exec(br(st, instr), <<"br">>)

OpJmp ==
    /\ op = OP_JMP
    /\ Exec(jmp(st, instr), <<"jmp">>)

OpJsr ==
    /\ op = OP_JSR
    /\ Exec(jsr(st, instr), <<"jsr">>)

OpLd ==
    /\ op = OP_LD
    /\ \E key \in Keys : Exec(ld(st, instr, key), <<"ld">>)

OpLdi ==
    /\ op = OP_LDI
    /\ \E key \in Keys : Exec(ldi(st, instr, key), <<"ldi">>)

OpLdr ==
    /\ op = OP_LDR
    /\ \E key \in Keys : Exec(ldr(st, instr, key), <<"ldr">>)

OpLea ==
    /\ op = OP_LEA
    /\ Exec(lea(st, instr), <<"lea">>)

OpSt ==
    /\ op = OP_ST
    /\ Exec(st_(st, instr), <<"st">>)

OpSti ==
    /\ op = OP_STI
    /\ \E key \in Keys : Exec(sti(st, instr, key), <<"sti">>)

OpStr ==
    /\ op = OP_STR
    /\ Exec(str_(st, instr), <<"str">>)

OpTrap ==
    /\ op = OP_TRAP
    /\ \E key \in Keys : Exec(trap(st, instr, key), <<"trap">>)

\* The switch without its case OP_ADD.
HandledNoAdd ==
    {OP_AND, OP_NOT, OP_BR, OP_JMP, OP_JSR, OP_LD, OP_LDI, OP_LDR,
     OP_LEA, OP_ST, OP_STI, OP_STR, OP_TRAP}

\* The switch without its case OP_TRAP.
HandledNoTrap ==
    {OP_ADD, OP_AND, OP_NOT, OP_BR, OP_JMP, OP_JSR, OP_LD, OP_LDI, OP_LDR,
     OP_LEA, OP_ST, OP_STI, OP_STR}

\* The case labels of the switch that have a handler.
Handled ==
    {OP_ADD, OP_AND, OP_NOT, OP_BR, OP_JMP, OP_JSR, OP_LD, OP_LDI, OP_LDR,
     OP_LEA, OP_ST, OP_STI, OP_STR, OP_TRAP}

\* case OP_RES: case OP_RTI: default:
OpBad ==
    /\ op \notin Handled
    /\ Exec(bad_opcode(st, op), <<>>)

Dispatch ==
    \/ OpAdd \/ OpAnd \/ OpNot \/ OpBr \/ OpJmp \/ OpJsr \/ OpLd \/ OpLdi
    \/ OpLdr \/ OpLea \/ OpSt \/ OpSti \/ OpStr \/ OpTrap \/ OpBad

Next == Fetch \/ Dispatch

Spec == Init /\ [][Next]_vars

(***************************************************************************)
(* Functions called alone, on every argument: update_flags on every        *)
(* register and value, sign_extend on every field of every width, and the  *)
(* case OP_ADD on every ADD word.                                          *)
(***************************************************************************)
Rest == <<instr, op, fetchAddr, steps, image, callArg, callRet, ran, callSite,
          lastFlag>>

Flags == {FL_POS, FL_ZRO, FL_NEG}

\* Register contents at the edges of the 16-bit range.
SampleVals == <<0, 1, 3, 32767, 32768, 65535>>

NSamples == Len(SampleVals)

\* The general-purpose registers hold SampleVals, rotated by k.
RegFile(k, pc, cond) ==
    [i \in 0..(R_COUNT - 1) |->
        IF i = R_PC THEN pc
        ELSE IF i = R_COND THEN cond
        ELSE SampleVals[((i + k) % NSamples) + 1]]

OneWord(w) == [origin |-> PC_START, words |-> <<w>>]

\* The word w has been fetched from PC_START; the registers are rg.
Fetched(lay, w, rg) ==
    Start([Boot(lay, OneWord(w)) EXCEPT !.reg = rg],
          "dispatch", w, PC_START, 1, OneWord(w), <<>>)

\* Every instruction word, fetched as the last but one the loop may fetch,
\* over two rotations of the register file, each with its own flag value.
FlagAt(k) == <<0, FL_POS, FL_ZRO, FL_NEG>>[k + 1]

ExecRotations == {0, 3}

InitExec ==
    \E lay \in Layouts, w \in 0..UINT16_MAX, k \in ExecRotations :
        Start([Boot(lay, OneWord(w)) EXCEPT
                   !.reg = RegFile(k, PC_START + 1, FlagAt(k))],
              "dispatch", w, PC_START, MaxSteps - 1, OneWord(w), <<>>)

SpecExec == InitExec /\ [][Next]_vars

AddWords == (OP_ADD * 4096)..(OP_ADD * 4096 + 4095)

InitAdd ==
    \E lay \in Layouts, w \in AddWords, k \in 0..(NSamples - 1),
       cond \in Flags \cup {0} :
        Fetched(lay, w, RegFile(k, PC_START + 1, cond))

SpecAdd == InitAdd /\ [][OpAdd]_vars

\* Every prior flag value at the edges, one of them elsewhere.
PriorFlags(v) ==
    IF v \in {0, 1, 32767, 32768, 65535}
    THEN Flags \cup {0}
    ELSE {<<0, FL_POS, FL_ZRO, FL_NEG>>[(v % 4) + 1]}

InitFlags ==
    \E r \in 0..7, v \in 0..UINT16_MAX :
      \E prior \in PriorFlags(v) :
        Start([ZeroState("pad") EXCEPT !.reg[r] = v, !.reg[R_PC] = PC_START,
                                       !.reg[R_COND] = prior],
              "call", 0, 0, 0, NoImage, <<"update_flags", r, prior>>)

CallUpdateFlags ==
    /\ at = "call"
    /\ callArg[1] = "update_flags"
    /\ Commit(update_flags(st, callArg[2]))
    /\ at' = "return"
    /\ UNCHANGED Rest

SpecFlags == InitFlags /\ [][CallUpdateFlags]_vars

Widths == {5, 6, 9, 11}

InitSignExtend ==
    \E n \in Widths :
      \E x \in 0..(2 ^ n - 1) :
        Start([ZeroState("pad") EXCEPT !.reg[R_PC] = PC_START],
              "call", 0, 0, 0, NoImage, <<"sign_extend", x, n>>)

CallSignExtend ==
    /\ at = "call"
    /\ callArg[1] = "sign_extend"
    /\ callRet' = sign_extend(callArg[2], callArg[3])
    /\ at' = "return"
    /\ UNCHANGED <<memory, reg, ext, layout, oob, running, diag, instr, op,
                   fetchAddr, steps, image, callArg, ran, callSite, lastFlag>>

SpecSignExtend == InitSignExtend /\ [][CallSignExtend]_vars

\* The opcodes whose instruction has no destination register.
NoDestOps == {OP_BR, OP_ST, OP_JSR, OP_STR, OP_STI, OP_JMP, OP_TRAP}

NoDestWords == {w \in 0..UINT16_MAX : Shr(w, 12) \in NoDestOps}

\* Every word of those opcodes, fetched, under every flag value.
InitNoDest ==
    \E lay \in Layouts, w \in NoDestWords, k \in ExecRotations,
       cond \in Flags \cup {0} :
        Fetched(lay, w, RegFile(k, PC_START + 1, cond))

NoDestStep == OpBr \/ OpSt \/ OpJsr \/ OpStr \/ OpSti \/ OpJmp \/ OpTrap

SpecNoDest == InitNoDest /\ [][NoDestStep]_vars

BrWords == (OP_BR * 4096)..(OP_BR * 4096 + 4095)

\* Incremented PCs at the edges of the address range and after PC_START.
BrPCs == {0, 1, PC_START + 1, UINT16_MAX}

\* Every BR word, fetched, under every flag value.
InitBr ==
    \E lay \in Layouts, w \in BrWords, pc \in BrPCs, cond \in Flags \cup {0} :
        Start([Boot(lay, OneWord(w)) EXCEPT !.reg = RegFile(0, pc, cond)],
              "dispatch", w, U16(pc + UINT16_MAX), 1, OneWord(w), <<>>)

SpecBr == InitBr /\ [][OpBr]_vars

(***************************************************************************)
(* The properties checked.                                                 *)
(***************************************************************************)
\* A step of the loop that fetches, and one that runs a handler.
IsFetch == at = "fetch" /\ at' = "dispatch"

IsExec == at = "dispatch" /\ at' = "fetch"

\* Bits [15:12] and [7:0] of the word being executed, by arithmetic.
OpcodeOf(w) == w \div 4096

VectorOf(w) == w % 256

IsHaltTrap(w) == OpcodeOf(w) = 15 /\ VectorOf(w) = 37

IsBadOpcode(w) == OpcodeOf(w) \in {8, 13}

C2_HaltIsTerminal ==
    /\ [][(IsExec /\ IsHaltTrap(instr)) => (running # 0 /\ running' = 0)]_vars
    /\ [][running = 0 =>
            /\ steps' = steps
            /\ instr' = instr
            /\ fetchAddr' = fetchAddr
            /\ reg' = reg
            /\ memory' = memory
            /\ running' = 0]_vars

\* The loop has ended on TRAP HALT.
C2_Witness ==
    /\ running = 0
    /\ at = "fetch"
    /\ instr = 61477
    /\ diag.kind = "none"
    /\ steps < MaxSteps

\* C3: executing a word whose bits [15:12] are RES (13) or RTI (8) ends the
\* loop in that step, with a bad-opcode diagnostic that names the opcode
\* and the address the word was fetched from; nothing is fetched after it.
C3_BadOpcodeHalts ==
    /\ [][(IsExec /\ IsBadOpcode(instr)) =>
            /\ running' = 0
            /\ diag' = [kind |-> "BadOpcode", opcode |-> OpcodeOf(instr),
                        address |-> fetchAddr]]_vars
    /\ [][diag.kind = "BadOpcode" =>
            (running' = 0 /\ steps' = steps /\ fetchAddr' = fetchAddr)]_vars

\* The loop has ended on a RES word fetched from PC_START.
C3_Witness ==
    /\ running = 0
    /\ diag = [kind |-> "BadOpcode", opcode |-> 13, address |-> PC_START]
    /\ instr = 53248
    /\ steps < MaxSteps

\* C4: every access to memory, the instruction fetch included, is inside
\* the array: no fetch, load or store is out of range.
C4_Claim == ~oob /\ (at = "dispatch" => fetchAddr < MEMORY_SIZE)

\* The addresses the image's data words belong at.
ImageAddrs == { (image.origin + k - 1) % 65536 : k \in 1..Len(image.words) }

\* C5: before the first fetch PC is the origin of the image loaded, the
\* image's words lie in memory from the origin on, and every general-purpose
\* register and every other memory cell is zero.
C5_Claim ==
    (steps = 0 /\ at = "fetch") =>
        /\ reg[R_PC] = image.origin
        /\ \A k \in 1..Len(image.words) :
              Get(memory, (image.origin + k - 1) % 65536) = image.words[k]
        /\ \A r \in 0..7 : reg[r] = 0
        /\ \A a \in DOMAIN memory : a \in ImageAddrs

\* C6: running goes from 1 to 0 only on a TRAP HALT or on a RES or RTI
\* word: every other instruction executed leaves the loop running.
C6_HaltOnlyByHaltOrBadOpcode ==
    /\ [][(running # 0 /\ running' = 0) =>
            (IsExec /\ (IsHaltTrap(instr) \/ IsBadOpcode(instr)))]_vars
    /\ [][(IsExec /\ ~IsHaltTrap(instr) /\ ~IsBadOpcode(instr)) =>
            (running' = running /\ running' # 0 /\ diag' = diag)]_vars

\* A TRAP whose vector is not HALT has run, and the loop is still running.
C6_Witness ==
    /\ at = "fetch"
    /\ steps > 0
    /\ instr = 61472
    /\ running = 1

\* sign_extend and the flag of a value, by arithmetic on the number.
Widen(x, n) == IF x >= 2 ^ (n - 1) THEN x + 65536 - 2 ^ n ELSE x

FlagOf(v) == IF v = 0 THEN 2 ELSE IF v >= 32768 THEN 4 ELSE 1

\* C7: after ADD, reg[dr] = (old reg[sr1] + operand2) mod 65536, where
\* dr = bits [11:9], sr1 = bits [8:6], operand2 = the sign-extended bits
\* [4:0] when bit 5 is 1 and old reg[bits [2:0]] when it is 0, also when dr
\* is sr1 or sr2; the flags are those of the new reg[dr].  reg[1] = 3 with
\* dr = 0, sr1 = 1, imm5 = 11110 gives reg[0] = 1 and POSITIVE.
C7_Add ==
    /\ [][(IsExec /\ OpcodeOf(instr) = 1) =>
            LET dr == (instr \div 512) % 8
                sr1 == (instr \div 64) % 8
                operand2 == IF (instr \div 32) % 2 = 1
                            THEN Widen(instr % 32, 5)
                            ELSE reg[instr % 8]
            IN  /\ reg'[dr] = (reg[sr1] + operand2) % 65536
                /\ reg'[R_COND] = FlagOf(reg'[dr])]_vars
    /\ [][(IsExec /\ instr = 4222 /\ reg[1] = 3) =>
            (reg'[0] = 1 /\ reg'[R_COND] = 1)]_vars

\* ADD R0, R1, #-2 has run with reg[1] = 3.
C7_Witness ==
    /\ at = "fetch"
    /\ instr = 4222
    /\ reg[1] = 3
    /\ reg[0] = 1
    /\ reg[R_COND] = 1

\* C8: after update_flags(r) the flags register is exactly one of POSITIVE,
\* ZERO, NEGATIVE, whatever it held before: ZERO iff reg[r] = 0, NEGATIVE
\* iff bit 15 of reg[r] is 1, POSITIVE otherwise.
C8_UpdateFlags ==
    (at = "return" /\ callArg[1] = "update_flags") =>
        LET v == reg[callArg[2]]
        IN  /\ reg[R_COND] \in {1, 2, 4}
            /\ (reg[R_COND] = 2) <=> (v = 0)
            /\ (reg[R_COND] = 4) <=> ((v \div 32768) % 2 = 1)
            /\ (reg[R_COND] = 1) <=> (v # 0 /\ (v \div 32768) % 2 = 0)

\* update_flags(7) has replaced POSITIVE by NEGATIVE.
C8_Witness ==
    /\ at = "return"
    /\ callArg = <<"update_flags", 7, 1>>
    /\ reg[7] = 32768
    /\ reg[R_COND] = 4

\* C9: for n in {5, 6, 9, 11} and 0 <= x < 2^n, sign_extend(x, n) is x when
\* bit n-1 of x is 0 and x + 65536 - 2^n when it is 1, and fits in 16 bits;
\* sign_extend(0b10000, 5) = 0xFFF0 and sign_extend(0b01111, 5) = 0x000F.
C9_SignExtend ==
    (at = "return" /\ callArg[1] = "sign_extend") =>
        LET x == callArg[2]
            n == callArg[3]
        IN  /\ callRet \in 0..65535
            /\ (x \div 2 ^ (n - 1)) % 2 = 0 => callRet = x
            /\ (x \div 2 ^ (n - 1)) % 2 = 1 => callRet = x + 65536 - 2 ^ n
            /\ (x = 16 /\ n = 5) => callRet = 65520
            /\ (x = 15 /\ n = 5) => callRet = 15

\* sign_extend(0b10000, 5) has returned 0xFFF0.
C9_Witness ==
    /\ at = "return"
    /\ callArg = <<"sign_extend", 16, 5>>
    /\ callRet = 65520

\* C10: after LDI, with address = (PC + the sign-extended bits [8:0]) mod
\* 65536 from the incremented PC, reg[dr] = memory[memory[address]] for
\* dr = bits [11:9], both cells being cells of memory, and the flags are
\* those of the new reg[dr].
C10_Claim ==
    [][(IsExec /\ OpcodeOf(instr) = 10) =>
          LET dr == (instr \div 512) % 8
              address == (reg[R_PC] + Widen(instr % 512, 9)) % 65536
              pointer == Get(memory', address)
          IN  /\ address < MEMORY_SIZE
              /\ pointer < MEMORY_SIZE
              /\ reg'[dr] = Get(memory', pointer)
              /\ reg'[R_COND] = FlagOf(reg'[dr])]_vars

\* C11: a step that executes an instruction with no destination register
\* (opcode BR, ST, JSR, STR, STI, JMP or TRAP, by bits [15:12] of the word)
\* leaves reg[R_COND] exactly as it was, for every such word and every
\* flag value before the step.
C11_NoDestKeepsFlags ==
    [][(IsExec /\ OpcodeOf(instr) \in {0, 3, 4, 7, 11, 12, 15})
          => reg'[R_COND] = reg[R_COND]]_vars

\* ST R0, +0 has stored a positive R0 and the flags still say ZERO.
C11_Witness ==
    /\ at = "fetch"
    /\ instr = 12288
    /\ ran = <<"st">>
    /\ Get(memory, PC_START + 1) = 32767
    /\ reg[R_COND] = FL_ZRO

\* C12: a JSR or JSRR fetched from address a leaves (a + 1) mod 65536, the
\* already-incremented PC, in register 7 (also when register 7 is its own
\* base register, so the store precedes the change of PC); and a JMP through
\* register 7 executed while register 7 still holds what that JSR left in it
\* sets PC to (a + 1) mod 65536.
C12_ReturnToCallSite ==
    /\ [][(IsExec /\ OpcodeOf(instr) = 4)
             => /\ reg'[R_R7] = (fetchAddr + 1) % 65536
                /\ callSite' = <<fetchAddr>>
                /\ ((instr \div 2048) % 2 = 0 /\ (instr \div 64) % 8 = 7)
                       => reg'[R_PC] = (fetchAddr + 1) % 65536]_vars
    /\ [][(IsExec /\ OpcodeOf(instr) = 12 /\ (instr \div 64) % 8 = 7
               /\ callSite # <<>>)
             => reg'[R_PC] = (callSite[1] + 1) % 65536]_vars

\* JSR -2 at PC_START has called PC_START - 1, and the JMP R7 there has
\* returned to PC_START + 1.
C12_Witness ==
    /\ at = "fetch"
    /\ instr = 49600
    /\ ran = <<"jmp">>
    /\ fetchAddr = PC_START - 1
    /\ callSite = <<PC_START>>
    /\ reg[R_PC] = PC_START + 1

\* C13: a BR step is taken exactly when bits [11:9] of the word and
\* reg[R_COND] have a bit in common: then PC becomes (incremented PC +
\* sign-extended bits [8:0]) mod 65536, otherwise PC stays the incremented
\* PC; with reg[R_COND] = 0, its zero-initialized value, no BR is taken.
C13_Branch ==
    [][(IsExec /\ OpcodeOf(instr) = 0)
         => LET nzp == (instr \div 512) % 8
                cond == reg[R_COND]
                taken == \E b \in {1, 2, 4} :
                            (nzp \div b) % 2 = 1 /\ (cond \div b) % 2 = 1
            IN  /\ taken
                     => reg'[R_PC] = (reg[R_PC] + Widen(instr % 512, 9)) % 65536
                /\ ~taken => reg'[R_PC] = reg[R_PC]
                /\ cond = 0 => reg'[R_PC] = reg[R_PC]]_vars

\* BRnzp -1 fetched from UINT16_MAX, flags NEGATIVE: taken, from the
\* incremented PC 0 back to UINT16_MAX.
C13_Witness ==
    /\ at = "fetch"
    /\ instr = 4095
    /\ ran = <<"br">>
    /\ fetchAddr = UINT16_MAX
    /\ reg[R_COND] = FL_NEG
    /\ reg[R_PC] = UINT16_MAX

\* The handler of each value 0..15 of bits [15:12]; "" where there is none.
HandlerNames ==
    <<"br", "add", "ld", "st", "jsr", "and", "ldr", "str", "",
      "not", "ldi", "sti", "jmp", "", "lea", "trap">>

RanFor(w) ==
    IF HandlerNames[OpcodeOf(w) + 1] = "" THEN <<>>
    ELSE <<HandlerNames[OpcodeOf(w) + 1]>>

\* C14: for every fetched word the switch selects by bits [15:12] alone, and
\* every value of them has a case: one of the 14 opcodes BR=0, ADD=1, LD=2,
\* ST=3, JSR=4, AND=5, LDR=6, STR=7, NOT=9, LDI=10, STI=11, JMP=12, LEA=14,
\* TRAP=15, whose step calls that opcode's handler, once, and no other; or
\* RTI=8 or RES=13, whose step calls no handler.
C14_DispatchByOpcode ==
    /\ [](at = "dispatch"
            => /\ op = OpcodeOf(instr)
               /\ op \in Handled \cup {OP_RTI, OP_RES}
               /\ (op \in Handled) = (RanFor(instr) # <<>>)
               /\ ran = <<>>)
    /\ [][IsExec => ran' = RanFor(instr)]_vars

\* NOT R0, R0 has run the NOT handler, once: R0 went from 0 to 0xFFFF.
C14_Witness ==
    /\ at = "fetch"
    /\ instr = 36927
    /\ ran = <<"not">>
    /\ reg[R_R0] = UINT16_MAX
    /\ reg[R_COND] = FL_NEG

\* C15: in every reachable state reg[R_COND] is 0, FL_POS, FL_ZRO or FL_NEG,
\* never a combination; it is 0 exactly as long as no flag-setting
\* instruction has been executed; and after one, it is the flag of the value
\* the destination register of the last flag-setting instruction holds, for
\* as long as no later instruction has changed that register.
C15_FlagsOneOf ==
    /\ reg[R_COND] \in {0, 1, 2, 4}
    /\ (reg[R_COND] = 0) = (lastFlag = <<>>)
    /\ (lastFlag # <<>> /\ lastFlag[2]) => reg[R_COND] = FlagOf(reg[lastFlag[1]])

\* ADD R0, R0, #-1 has left 0xFFFF and NEGATIVE; the ST R0 executed after
\* it has changed neither.
C15_Witness ==
    /\ at = "fetch"
    /\ instr = 12288
    /\ ran = <<"st">>
    /\ lastFlag = <<R_R0, TRUE>>
    /\ reg[R_R0] = UINT16_MAX
    /\ reg[R_COND] = FL_NEG

\* C16: an ADD step, in register mode and in immediate mode, changes
\* nothing but reg[dr], dr = bits [11:9], and reg[R_COND]: the memory cells
\* (the object after the array included), reg[R_PC] as the fetch left it, the
\* loop's running flag and diagnostic, and the seven other general-purpose
\* registers are as before the step.
C16_AddFrame ==
    [][(IsExec /\ OpcodeOf(instr) = 1)
         => /\ memory' = memory
            /\ ext' = ext
            /\ oob' = oob
            /\ running' = running
            /\ diag' = diag
            /\ reg'[R_PC] = reg[R_PC]
            /\ \A r \in R_R0..R_R7 :
                  r # (instr \div 512) % 8 => reg'[r] = reg[r]]_vars

\* ADD R0, R1, R2 with R1 = 1 and R2 = 3: R0 is 4, the other registers, the
\* PC, the loop flag and the loaded word are as they were.
C16_Witness ==
    /\ at = "fetch"
    /\ instr = 4162
    /\ reg[0] = 4
    /\ reg[1] = 1
    /\ reg[2] = 3
    /\ reg[R_R7] = 1
    /\ reg[R_PC] = PC_START + 1
    /\ running = 1
    /\ Get(memory, PC_START) = 4162

====
